---- MODULE Spec2Model ----
(***************************************************************************)
(* Model of src/wifi_interface.rs: the Wifi driver adapter (poll_dhcp,     *)
(* get_status), the Network port counter and the blocking Socket           *)
(* operations built on the smoltcp engine.                                 *)
(***************************************************************************)
EXTENDS Integers, Sequences, FiniteSets, TLC

\* ---------------------------------------------------------------- bounds
MaxAddr == 2        \* IPv4 addresses are 0..MaxAddr, 0 is 0.0.0.0
MaxTable == 2       \* longest address table drawn in Init
MaxBytes == 2       \* socket buffer capacity and longest caller buffer
MaxSubmits == 3     \* send_slice calls followed within one write
MaxOpens == 2       \* open calls followed on one Network
MaxName == 2        \* ssids and passwords are 1..MaxName
MaxScan == 2        \* small scan capacities are 0..MaxScan

\* ------------------------------------------------------- program constants
InitialLocalPort == 41000
LocalPortLimit == 65535
U16 == 65536
MaskBits == 24

\* ------------------------------------------------------------ value sets
NoAddr == -1
Unspecified == 0
Ipv4 == 0..MaxAddr
OptIpv4 == {NoAddr} \cup Ipv4

V6Entry == [v4 |-> FALSE, addr |-> 0]
V4Entry(a) == [v4 |-> TRUE, addr |-> a]
Cidrs == {V6Entry} \cup {V4Entry(a) : a \in Ipv4}

AddrTables == UNION {[1..n -> Cidrs] : n \in 0..MaxTable}

\* Option<Dhcpv4Config>: some = FALSE is None
NoConfig == [some |-> FALSE, address |-> 0, router |-> NoAddr, dns0 |-> NoAddr]
SomeConfig(a, r, d) == [some |-> TRUE, address |-> a, router |-> r, dns0 |-> d]
Dhcpv4Configs == {SomeConfig(a, r, d) : a \in Ipv4, r \in OptIpv4, d \in OptIpv4}

\* Option<Dhcpv4Event> as returned by dhcp_socket.poll()
NoEvent == [kind |-> "None", config |-> NoConfig]
Deconfigured == [kind |-> "Deconfigured", config |-> NoConfig]
Configured(c) == [kind |-> "Configured", config |-> c]
Dhcpv4Events == {NoEvent, Deconfigured} \cup {Configured(c) : c \in Dhcpv4Configs}

\* embedded_svc::wifi::Configuration; only Client carries fields that are used
ConfNone == [kind |-> "None", ssid |-> 0, password |-> 0]
ConfClient(s, pw) == [kind |-> "Client", ssid |-> s, password |-> pw]
ConfAccessPoint(s, pw) == [kind |-> "AccessPoint", ssid |-> s, password |-> pw]
ConfMixed(s, pw) == [kind |-> "Mixed", ssid |-> s, password |-> pw]
Configurations ==
    {ConfNone} \cup {ConfClient(s, pw) : s \in 1..MaxName, pw \in 1..MaxName}
               \cup {ConfAccessPoint(1, 1), ConfMixed(1, 1)}

\* i32 codes wifi_connect is followed with: success and some failures
DriverCodes == {-1, 0, 1, 12289}

WifiStates == {"WifiReady", "StaStart", "StaStop", "StaConnected", "StaDisconnected", "Invalid"}

VARIABLES
    \* Wifi
    addrs,              \* network_interface.ip_addrs()
    default_route,      \* network_interface.routes(): gateway of 0.0.0.0/0, NoAddr if absent
    route_room,         \* the route storage has a free slot for a new default route
    network_config,     \* Wifi.network_config
    dhcp_socket_handle, \* Wifi.dhcp_socket_handle is Some
    wifi_state,         \* what crate::wifi::get_wifi_state() returned to the last get_status
    \* observations
    dhcp_event,         \* event taken by the last poll_dhcp
    dhcp_result,        \* result of the last poll_dhcp
    status,             \* value returned by the last get_status
    v4_at_start,        \* number of IPv4 entries in the table handed to Wifi::new
    configured_seen,    \* a Configured event has been processed
    current_config,     \* Wifi.current_config
    conf_result,        \* result of the last set_configuration
    conf_ret,           \* value returned by the last get_configuration
    driver_connect,     \* the wifi_connect call made by the last set_configuration
    last_set,           \* the most recent set_configuration: its argument and result
    scan_input,         \* capacity and driver answers of the last scan_n
    scan_result,        \* what the last scan_n returned
    panicked,           \* the calling context was aborted by a panic
    \* Network
    local_port,         \* Network.local_port
    port_before,        \* counter value when the last next_local_port call started
    port_ret,           \* value returned by the last next_local_port call
    prev_port_ret,      \* value returned by the call before that
    \* the TcpSocket behind Socket.socket_handle, owned by the engine
    tcp_state,          \* TCP state of the socket
    rx_len,             \* bytes waiting in the receive buffer
    tx_len,             \* bytes waiting in the transmit buffer
    bytes_arrived,      \* a byte has arrived on the current connection
    aborted,            \* the current connection was aborted (RST or abort())
    \* the blocking call in progress
    op,                 \* which Socket / Network method is running
    pc,                 \* its position
    buf_len,            \* buf.len() of read / write
    written,            \* write: bytes accepted so far
    result,             \* how the last call ended
    ret_n,              \* the count carried by Ok(n)
    \* observations of the call in progress
    last_poll,          \* result of its last engine step
    dhcp_drained,       \* poll_dhcp ran since its last engine step
    last_step_drained,  \* whether its last engine step followed a poll_dhcp
    wait_fault,         \* an engine failure occurred in its main wait loop
    submits,            \* write: send_slice calls made
    last_offered,       \* write: length of the slice last handed to send_slice
    last_accept,        \* write: count the last send_slice accepted, -1 for Err
    port_calls,         \* next_local_port calls it made
    connects,           \* connect requests it issued
    connect_port,       \* local port it handed to connect
    steps_in_iteration, \* engine steps since the last send-ready check: 0, 1, 2 = several
    \* the RefCell around Network.interface
    interface_borrowed, \* a RefMut of it is alive
    borrow_fault        \* borrow_mut was called while one was alive

driver_vars == <<current_config, conf_result, conf_ret, driver_connect, last_set,
                 scan_input, scan_result>>
wifi_vars == <<addrs, default_route, route_room, network_config, dhcp_socket_handle,
               wifi_state, dhcp_event, dhcp_result, status, v4_at_start,
               configured_seen, driver_vars>>
port_vars == <<local_port, port_before, port_ret, prev_port_ret>>

tcp_vars == <<tcp_state, rx_len, tx_len, bytes_arrived, aborted>>
call_vars == <<op, pc, buf_len, written, result, ret_n>>
obs_vars == <<last_poll, dhcp_drained, last_step_drained, wait_fault, submits,
              last_offered, last_accept>>
guard_vars == <<interface_borrowed, borrow_fault>>
open_obs == <<port_calls, connects, connect_port, steps_in_iteration>>
sock_vars == <<tcp_vars, call_vars, obs_vars, open_obs, guard_vars>>

vars == <<wifi_vars, port_vars, sock_vars, panicked>>

\* --------------------------------------------------------------- helpers
V4Indices(t) == {i \in 1..Len(t) : t[i].v4}
V4Count(t) == Cardinality(V4Indices(t))

\* addrs.iter_mut().filter(is ipv4).next(): index of the first IPv4 entry, 0 if none
FirstV4(t) ==
    IF V4Indices(t) = {} THEN 0
    ELSE CHOOSE i \in V4Indices(t) : \A j \in V4Indices(t) : i <= j

\* Interface::ipv4_addr(): the first IPv4 address of the table, NoAddr if none
ipv4_addr(t) == IF FirstV4(t) = 0 THEN NoAddr ELSE t[FirstV4(t)].addr

\* the closure passed to update_ip_addrs: *addr = IpCidr::Ipv4(address)
PushAddr(t, address) == Append(t, V4Entry(address))
update_ip_addrs(t, address) == [t EXCEPT ![FirstV4(t)] = V4Entry(address)]

\* routes_mut().add_default_ipv4_route(route): replaces an existing default
\* route, otherwise needs a free slot
AlwaysRoom(dr, room) == TRUE
add_default_ipv4_route_ok(dr, room) == dr # NoAddr \/ room

\* `if let Some(route) = config.router { ...add_default_ipv4_route(route)?; }`:
\* the default route the Configured branch leaves behind
ClearsWithoutGateway(router, dr, room) ==
    IF router = NoAddr THEN NoAddr
    ELSE IF add_default_ipv4_route_ok(dr, room) THEN router ELSE dr
configured_route(router, dr, room) ==
    IF router = NoAddr THEN dr
    ELSE IF add_default_ipv4_route_ok(dr, room) THEN router ELSE dr

\* ------------------------------------------------------------- Wifi::new
NoStatus == [client |-> "None", conn |-> "None", ip |-> "None",
             addr |-> NoAddr, gateway |-> NoAddr, dns |-> NoAddr,
             mask |-> 0, secondary_dns |-> NoAddr]

\* Result<(), WifiError> of set_configuration
NoConfResult == [kind |-> "None", code |-> 0]
ConfOk == [kind |-> "Ok", code |-> 0]
ConfUnknown(code) == [kind |-> "Unknown", code |-> code]
ConfPanic == [kind |-> "Panic", code |-> 0]

NoConfRet == [kind |-> "NoCall", ssid |-> 0, password |-> 0]
NoDriverConnect == [called |-> FALSE, ssid |-> 0, password |-> 0, code |-> 0]

NoLastSet == [called |-> FALSE, conf |-> ConfNone, result |-> NoConfResult]

NoScanInput == [called |-> FALSE, N |-> 0, M |-> 0, bad |-> 0]
NoScanResult == [kind |-> "None", len |-> 0, count |-> 0]

WifiNew(t) ==
    /\ addrs = t
    /\ network_config = NoConfig
    /\ dhcp_event = NoEvent
    /\ dhcp_result = "None"
    /\ status = NoStatus
    /\ v4_at_start = V4Count(t)
    /\ configured_seen = FALSE
    /\ current_config = ConfNone
    /\ conf_result = NoConfResult
    /\ conf_ret = NoConfRet
    /\ driver_connect = NoDriverConnect
    /\ last_set = NoLastSet
    /\ scan_input = NoScanInput
    /\ scan_result = NoScanResult
    /\ panicked = FALSE

\* ------------------------------------------------------ Wifi::poll_dhcp
PollDhcpBody(event) ==
    /\ dhcp_event' = event
    /\ configured_seen' = (configured_seen \/ event.kind = "Configured")
    /\ CASE event.kind = "None" ->
              /\ dhcp_result' = "Ok"
              /\ UNCHANGED <<addrs, default_route, network_config, panicked>>
         [] event.kind = "Deconfigured" ->
              /\ network_config' = NoConfig
              /\ default_route' = NoAddr
              /\ dhcp_result' = "Ok"
              /\ UNCHANGED <<addrs, panicked>>
         [] event.kind = "Configured" ->
              /\ network_config' = event.config
              /\ IF FirstV4(addrs) = 0
                 THEN \* .next().unwrap() on None
                      /\ panicked' = TRUE
                      /\ dhcp_result' = "Panic"
                      /\ UNCHANGED <<addrs, default_route>>
                 ELSE /\ addrs' = update_ip_addrs(addrs, event.config.address)
                      /\ panicked' = FALSE
                      /\ default_route' = configured_route(event.config.router,
                                                           default_route, route_room)
                      /\ dhcp_result' =
                            IF /\ event.config.router # NoAddr
                               /\ ~add_default_ipv4_route_ok(default_route, route_room)
                            THEN "SmolTcpError"
                            ELSE "Ok"

\* the events dhcp_socket.poll() can return: none without a DHCP socket
PolledEvents == IF dhcp_socket_handle THEN Dhcpv4Events ELSE {NoEvent}

PollDhcp ==
    /\ ~panicked
    /\ \E event \in PolledEvents : PollDhcpBody(event)
    /\ wifi_state' = "None"
    /\ status' = NoStatus
    /\ UNCHANGED <<route_room, dhcp_socket_handle, v4_at_start, driver_vars, port_vars,
                   sock_vars>>

\* ------------------------------------------------------ Wifi::get_status
Status(client, conn, ip, addr, gateway, dns, mask, secondary) ==
    [client |-> client, conn |-> conn, ip |-> ip, addr |-> addr,
     gateway |-> gateway, dns |-> dns, mask |-> mask, secondary_dns |-> secondary]

StatusStopped == Status("Stopped", "None", "None", NoAddr, NoAddr, NoAddr, 0, NoAddr)
StatusStarting == Status("Starting", "None", "None", NoAddr, NoAddr, NoAddr, 0, NoAddr)
StatusDisconnected == Status("Started", "Disconnected", "None", NoAddr, NoAddr, NoAddr, 0, NoAddr)
StatusWaiting == Status("Started", "Connected", "Waiting", NoAddr, NoAddr, NoAddr, 0, NoAddr)

\* gw_bytes / dns_bytes start as [0; 4] and are overwritten from the lease
RouterField(cfg) == cfg.router
gw_bytes(cfg) == IF cfg.some /\ cfg.router # NoAddr THEN cfg.router ELSE Unspecified
dns_bytes(cfg) == IF cfg.some /\ cfg.dns0 # NoAddr THEN cfg.dns0 ELSE Unspecified

StatusFromLease(t, cfg) ==
    IF cfg.some
    THEN Status("Started", "Connected", "Done", cfg.address, gw_bytes(cfg),
                dns_bytes(cfg), MaskBits, Unspecified)
    ELSE StatusWaiting

client_ip_status(t, cfg) ==
    IF ipv4_addr(t) # NoAddr
    THEN IF ipv4_addr(t) # Unspecified
         THEN Status("Started", "Connected", "Done", ipv4_addr(t), gw_bytes(cfg),
                     dns_bytes(cfg), MaskBits, Unspecified)
         ELSE StatusWaiting
    ELSE StatusWaiting

get_status(ws, t, cfg) ==
    CASE ws = "WifiReady" -> StatusStopped
      [] ws = "StaStart" -> StatusStarting
      [] ws = "StaStop" -> StatusStopped
      [] ws = "StaConnected" -> client_ip_status(t, cfg)
      [] ws = "StaDisconnected" -> StatusDisconnected
      [] ws = "Invalid" -> StatusStopped

GetStatus ==
    /\ ~panicked
    /\ \E ws \in WifiStates :
          /\ wifi_state' = ws
          /\ status' = get_status(ws, addrs, network_config)
    /\ dhcp_event' = NoEvent
    /\ dhcp_result' = "None"
    /\ UNCHANGED <<addrs, default_route, route_room, network_config, dhcp_socket_handle,
                   v4_at_start, configured_seen, driver_vars, panicked, port_vars,
                   sock_vars>>

\* ------------------------------------------------ Wifi::set_configuration
\* `if res != 0 { Err(WifiError::Unknown(res)) } else { Ok(()) }`
AlwaysOk(res) == ConfOk
set_configuration_result(res) == IF res # 0 THEN ConfUnknown(res) ELSE ConfOk

\* the state every other Wifi call leaves alone here
wifi_frame == <<addrs, default_route, route_room, network_config, dhcp_socket_handle,
                wifi_state, dhcp_event, dhcp_result, status, v4_at_start,
                configured_seen>>

\* `self.current_config = conf.clone();`, the first statement of the call
KeptOnFailure(old, conf, res) == IF conf.kind = "Client" /\ res = 0 THEN conf ELSE old
stored_config(old, conf, res) == conf

SetConfiguration ==
    /\ ~panicked
    /\ \E conf \in Configurations, code \in DriverCodes :
          /\ current_config' = stored_config(current_config, conf, code)
          /\ IF conf.kind = "Client"
             THEN /\ driver_connect' = [called |-> TRUE, ssid |-> conf.ssid,
                                        password |-> conf.password, code |-> code]
                  /\ conf_result' = set_configuration_result(code)
                  /\ UNCHANGED panicked
             ELSE \* panic!() for None, AccessPoint and Mixed
                  /\ driver_connect' = NoDriverConnect
                  /\ conf_result' = ConfPanic
                  /\ panicked' = TRUE
          /\ last_set' = [called |-> TRUE, conf |-> conf, result |-> conf_result']
    /\ conf_ret' = NoConfRet
    /\ scan_input' = NoScanInput
    /\ scan_result' = NoScanResult
    /\ UNCHANGED <<wifi_frame, port_vars, sock_vars>>

\* ------------------------------------------------ Wifi::get_configuration
GetConfiguration ==
    /\ ~panicked
    /\ conf_ret' = current_config
    /\ conf_result' = NoConfResult
    /\ driver_connect' = NoDriverConnect
    /\ scan_input' = NoScanInput
    /\ scan_result' = NoScanResult
    /\ UNCHANGED <<current_config, last_set, wifi_frame, port_vars, sock_vars, panicked>>

\* ------------------------------------------------------------ Wifi::scan_n
Min(a, b) == IF a < b THEN a ELSE b

\* capacities N (usize) the scan is followed with: the small ones and two
\* that do not fit a u16
ScanCapacities == (0..MaxScan) \cup {U16, U16 + 1}
\* counts M (u16) esp_wifi_scan_get_ap_num writes into bss_total
ScanCounts == (0..(MaxScan + 1)) \cup {U16 - 1}
\* 1-based position of the first record whose authmode or second channel
\* code is outside the match arms, 0 when every record decodes
BadRecords == 0..(MaxScan + 1)

\* `N as u16`
as_u16(n) == n % U16

\* `if bss_total as usize > N { bss_total = N as u16; }`
NoClamp(total, N) == total
clamp(total, N) == IF total > N THEN as_u16(N) ELSE total

\* esp_wifi_scan_get_ap_records: fills at most the requested number of
\* records and writes the number filled back into bss_total
get_ap_records(requested, M) == Min(requested, M)

\* `for i in 0..bss_total`: records[i] is outside the array at i = N, and an
\* undecodable record panics; otherwise one push per record, dropped by
\* `.ok()` once the Vec holds N
scan_loop(bss_total, N, bad) ==
    IF bad # 0 /\ bad <= Min(bss_total, N) THEN [kind |-> "Panic", len |-> 0, count |-> 0]
    ELSE IF bss_total > N THEN [kind |-> "Panic", len |-> 0, count |-> 0]
    ELSE [kind |-> "Ok", len |-> Min(bss_total, N), count |-> bss_total]

scan_n(N, M, bad) ==
    LET init == as_u16(N)
        found == M
        clamped == clamp(found, N)
        filled == get_ap_records(clamped, M)
    IN  scan_loop(filled, N, bad)

ScanN ==
    /\ ~panicked
    /\ \E N \in ScanCapacities, M \in ScanCounts, bad \in BadRecords :
          /\ scan_input' = [called |-> TRUE, N |-> N, M |-> M, bad |-> bad]
          /\ scan_result' = scan_n(N, M, bad)
          /\ panicked' = (scan_n(N, M, bad).kind = "Panic")
    /\ conf_result' = NoConfResult
    /\ conf_ret' = NoConfRet
    /\ driver_connect' = NoDriverConnect
    /\ UNCHANGED <<current_config, last_set, wifi_frame, port_vars, sock_vars>>

\* --------------------------------------------------------- Network::new
NoPort == 0

NetworkNew ==
    /\ local_port = InitialLocalPort
    /\ port_before = NoPort
    /\ port_ret = NoPort
    /\ prev_port_ret = NoPort

\* ------------------------------------------------ Network::next_local_port
\* *local_port += 1 on a u16, then the reset at 65535
NoResetCounter(lp) == (lp + 1) % U16
next_local_port_counter(lp) ==
    IF (lp + 1) % U16 = LocalPortLimit THEN InitialLocalPort ELSE (lp + 1) % U16

\* the value handed back: *local_port after the increment and reset
ReturnThenIncrement(lp) == lp
next_local_port_ret(lp) == next_local_port_counter(lp)

\* the u16 addition overflows: a panic with overflow checks, a wrap without
increment_overflows(lp) == lp + 1 >= U16

PortBuilds == IF increment_overflows(local_port) THEN {"checked", "wrapping"} ELSE {"any"}

NextLocalPortBody(build) ==
    /\ port_before' = local_port
    /\ prev_port_ret' = port_ret
    /\ IF build = "checked"
       THEN UNCHANGED <<local_port, port_ret>>
       ELSE /\ local_port' = next_local_port_counter(local_port)
            /\ port_ret' = next_local_port_ret(local_port)

NextLocalPort ==
    /\ ~panicked
    /\ \E build \in PortBuilds :
          /\ NextLocalPortBody(build)
          /\ panicked' = (build = "checked")
    /\ UNCHANGED <<wifi_vars, sock_vars>>

\* ------------------------------------------- the engine seen by a Socket
TcpStates == {"Closed", "SynSent", "Established", "CloseWait"}

\* TcpSocket::is_open / may_send / may_recv / can_send / can_recv
is_open(st) == st # "Closed"
may_send(st) == st \in {"Established", "CloseWait"}
may_recv(st, rx) == st = "Established" \/ rx > 0
can_send(st, tx) == may_send(st) /\ tx < MaxBytes
can_recv(st, rx) == may_recv(st, rx) /\ rx > 0

\* what one Interface::poll can do to the TCP state: handshake completes,
\* the peer closes, the peer resets
TcpNext(st) ==
    CASE st = "Closed" -> {"Closed"}
      [] st = "SynSent" -> {"SynSent", "Established", "Closed"}
      [] st = "Established" -> {"Established", "CloseWait", "Closed"}
      [] st = "CloseWait" -> {"CloseWait", "Closed"}

\* Result<bool> of Interface::poll
PollResults == {"OkTrue", "OkFalse", "Err"}

\* network_interface().poll(now): Ok(false) means nothing was processed
EnginePoll(res) ==
    /\ last_poll' = res
    /\ last_step_drained' = IF dhcp_drained THEN "yes" ELSE "no"
    /\ dhcp_drained' = FALSE
    /\ IF res = "OkFalse"
       THEN UNCHANGED tcp_vars
       ELSE \E nxt \in TcpNext(tcp_state),
               got \in 0..(IF tcp_state = "Established" THEN MaxBytes - rx_len ELSE 0),
               sent \in 0..(IF may_send(tcp_state) THEN tx_len ELSE 0) :
              /\ tcp_state' = nxt
              /\ rx_len' = rx_len + got
              /\ tx_len' = tx_len - sent
              /\ bytes_arrived' = (bytes_arrived \/ got > 0)
              /\ aborted' = (aborted \/ (nxt = "Closed" /\ tcp_state # "Closed"))

\* TcpSocket::connect: refused on an open socket or an unusable remote endpoint
connect_ok(st, remote_ok) == ~is_open(st) /\ remote_ok


\* TcpSocket::send_slice: Err (-1) exactly when the socket cannot send, a
\* matter of the socket's state alone; otherwise it takes some or all of what
\* fits, 0 only when nothing fits
FaultsAnywhere(offered, st, tx) ==
    {-1} \cup (IF Min(offered, MaxBytes - tx) = 0 THEN {0}
               ELSE 1..Min(offered, MaxBytes - tx))
SendOutcomes(offered, st, tx) ==
    IF ~may_send(st) THEN {-1}
    ELSE IF Min(offered, MaxBytes - tx) = 0 THEN {0}
    ELSE 1..Min(offered, MaxBytes - tx)

\* TcpSocket::recv_slice: Err when the socket cannot receive, else the count copied
CopiesWhatIsThere(len, st, rx) == Min(len, rx)
recv_slice(len, st, rx) == IF may_recv(st, rx) THEN Min(len, rx) ELSE -1

\* ------------------------------------------------------ Network::get_socket
SocketNew ==
    /\ tcp_state = "Closed"
    /\ rx_len = 0
    /\ tx_len = 0
    /\ bytes_arrived = FALSE
    /\ aborted = FALSE
    /\ op = "none"
    /\ pc = "idle"
    /\ buf_len = 0
    /\ written = 0
    /\ result = "None"
    /\ ret_n = 0
    /\ last_poll = "None"
    /\ dhcp_drained = FALSE
    /\ last_step_drained = "none"
    /\ wait_fault = FALSE
    /\ submits = 0
    /\ last_offered = 0
    /\ last_accept = 0
    /\ port_calls = 0
    /\ connects = 0
    /\ connect_port = NoPort
    /\ steps_in_iteration = 0
    /\ interface_borrowed = FALSE
    /\ borrow_fault = FALSE

\* ------------------------------------------------ Network::with_interface
\* the RefMut taken by borrow_mut() is dropped when with_interface returns;
\* a panic inside the callback leaves the call inside it
GuardLeaked == TRUE
with_interface_exit == FALSE

\* one whole with_interface call
WithInterface ==
    /\ borrow_fault' = (borrow_fault \/ interface_borrowed)
    /\ interface_borrowed' = (panicked' \/ with_interface_exit)

\* ------------------------------------------------- entering a blocking call
Ops == {"open", "disconnect", "work", "network_work", "read", "write", "flush"}

\* each iteration of the work loop starts with the DHCP drain
SkipDrain == "work_poll"
work_loop_head == "work_drain"

FirstPc(o) ==
    CASE o = "open" -> "open_borrow"
      [] o = "disconnect" -> "disc_abort"
      [] o \in {"work", "network_work"} -> work_loop_head
      [] o = "read" -> "read_wait"
      [] o = "write" -> "write_wait"
      [] o = "flush" -> "flush_poll"

Call(o, n) ==
    /\ ~panicked
    /\ pc \in {"idle", "done"}
    /\ o = "open" => local_port < InitialLocalPort + MaxOpens
    /\ o \notin {"read", "write"} => n = 0
    /\ op' = o
    /\ pc' = FirstPc(o)
    /\ buf_len' = n
    /\ written' = 0
    /\ result' = "None"
    /\ ret_n' = 0
    /\ last_poll' = "None"
    /\ dhcp_drained' = FALSE
    /\ last_step_drained' = "none"
    /\ wait_fault' = FALSE
    /\ submits' = 0
    /\ last_offered' = 0
    /\ last_accept' = 0
    /\ port_calls' = 0
    /\ connects' = 0
    /\ connect_port' = NoPort
    /\ steps_in_iteration' = 0
    /\ UNCHANGED <<wifi_vars, port_vars, tcp_vars, guard_vars, panicked>>

\* ---------------------------------- Socket::work and Network::work
\* the DHCP events followed while a socket call is running
WorkEvents == {NoEvent, Deconfigured, Configured(SomeConfig(1, 1, NoAddr))}

WorkDrain ==
    /\ ~panicked
    /\ pc = "work_drain"
    /\ \E event \in PolledEvents \cap WorkEvents : PollDhcpBody(event)
    /\ dhcp_drained' = TRUE
    /\ pc' = "work_poll"
    /\ result' = IF panicked' THEN "Panic" ELSE result
    /\ UNCHANGED open_obs
    /\ UNCHANGED <<route_room, dhcp_socket_handle, wifi_state, status, v4_at_start,
                   driver_vars,
                   port_vars, tcp_vars, op, buf_len, written, ret_n, last_poll,
                   last_step_drained, wait_fault, submits, last_offered, last_accept>>
    /\ WithInterface

\* `if let Ok(false) = ... { break; }`
BreaksAfterEveryStep(res) == TRUE
work_breaks(res) == res = "OkFalse"

WorkPoll ==
    /\ ~panicked
    /\ pc = "work_poll"
    /\ steps_in_iteration' = Min(steps_in_iteration + 1, 2)
    /\ UNCHANGED <<port_calls, connects, connect_port>>
    /\ \E res \in PollResults :
          /\ EnginePoll(res)
          /\ wait_fault' = (wait_fault \/ (op = "open" /\ res = "Err"))
          /\ IF work_breaks(res)
             THEN IF op = "open"
                  THEN pc' = "open_check" /\ UNCHANGED result
                  ELSE pc' = "done" /\ result' = "Returned"
             ELSE pc' = work_loop_head /\ UNCHANGED result
    /\ UNCHANGED <<wifi_vars, port_vars, op, buf_len, written, ret_n, submits,
                   last_offered, last_accept, panicked>>
    /\ WithInterface

\* ------------------------------------------------------------ Socket::open
\* with_interface entered: the callback of lines 398-405 runs under the RefMut
OpenBorrow ==
    /\ ~panicked
    /\ pc = "open_borrow"
    /\ pc' = "open_connect"
    /\ borrow_fault' = (borrow_fault \/ interface_borrowed)
    /\ interface_borrowed' = TRUE
    /\ UNCHANGED open_obs
    /\ UNCHANGED <<wifi_vars, port_vars, tcp_vars, op, buf_len, written, result, ret_n,
                   obs_vars, panicked>>

OpenConnect ==
    /\ ~panicked
    /\ pc = "open_connect"
    /\ \E build \in PortBuilds, remote_ok \in BOOLEAN :
          /\ NextLocalPortBody(build)
          /\ port_calls' = port_calls + 1
          /\ connects' = IF build = "checked" THEN connects ELSE connects + 1
          /\ connect_port' = IF build = "checked" THEN connect_port ELSE port_ret'
          /\ UNCHANGED steps_in_iteration
          /\ IF build # "checked" /\ connect_ok(tcp_state, remote_ok)
             THEN /\ tcp_state' = "SynSent"
                  /\ rx_len' = 0
                  /\ tx_len' = 0
                  /\ bytes_arrived' = FALSE
                  /\ aborted' = FALSE
                  /\ pc' = "open_check"
                  /\ UNCHANGED <<panicked, result, wait_fault>>
             ELSE \* .unwrap() on the Err of connect, or the overflow panic
                  /\ panicked' = TRUE
                  /\ result' = "Panic"
                  /\ wait_fault' = (build # "checked")
                  /\ UNCHANGED <<tcp_vars, pc>>
    /\ UNCHANGED <<wifi_vars, op, buf_len, written, ret_n, last_poll, dhcp_drained,
                   last_step_drained, submits, last_offered, last_accept>>
    /\ interface_borrowed' = (panicked' \/ with_interface_exit)
    /\ UNCHANGED borrow_fault

OpenCheck ==
    /\ ~panicked
    /\ pc = "open_check"
    /\ steps_in_iteration' = 0
    /\ UNCHANGED <<port_calls, connects, connect_port>>
    /\ IF can_send(tcp_state, tx_len)
       THEN pc' = "done" /\ result' = "Ok"
       ELSE pc' = work_loop_head /\ UNCHANGED result
    /\ UNCHANGED <<wifi_vars, port_vars, tcp_vars, op, buf_len, written, ret_n,
                   obs_vars, panicked>>
    /\ WithInterface

\* ------------------------------------------------------ Socket::disconnect
DisconnectAbort ==
    /\ ~panicked
    /\ pc = "disc_abort"
    /\ tcp_state' = "Closed"
    /\ aborted' = (aborted \/ tcp_state # "Closed")
    /\ pc' = work_loop_head
    /\ UNCHANGED open_obs
    /\ UNCHANGED <<wifi_vars, port_vars, rx_len, tx_len, bytes_arrived, op, buf_len,
                   written, result, ret_n, obs_vars, panicked>>
    /\ WithInterface

\* ------------------------------------------------------------ Socket::read
\* the three checks after the step of the wait loop, in the order of the code
ClosedCheckFirst(st, rx) ==
    IF ~is_open(st) THEN "closed"
    ELSE IF may_recv(st, rx) THEN "break"
    ELSE IF ~can_recv(st, rx) THEN "closed"
    ELSE "again"
read_wait_check(st, rx) ==
    IF may_recv(st, rx) THEN "break"
    ELSE IF ~is_open(st) THEN "closed"
    ELSE IF ~can_recv(st, rx) THEN "closed"
    ELSE "again"

ReadWait ==
    /\ ~panicked
    /\ pc = "read_wait"
    /\ \E res \in PollResults :
          /\ EnginePoll(res)
          /\ IF res = "Err"
             THEN \* .unwrap() on the Err of poll
                  /\ panicked' = TRUE
                  /\ wait_fault' = TRUE
                  /\ result' = "Panic"
                  /\ UNCHANGED pc
             ELSE /\ UNCHANGED <<panicked, wait_fault>>
                  /\ CASE read_wait_check(tcp_state', rx_len') = "break" ->
                             pc' = "read_drain" /\ UNCHANGED result
                       [] read_wait_check(tcp_state', rx_len') = "closed" ->
                             pc' = "done" /\ result' = "SocketClosed"
                       [] OTHER -> UNCHANGED <<pc, result>>
    /\ UNCHANGED open_obs
    /\ UNCHANGED <<wifi_vars, port_vars, op, buf_len, written, ret_n, submits,
                   last_offered, last_accept>>
    /\ WithInterface

ReadDrain ==
    /\ ~panicked
    /\ pc = "read_drain"
    /\ \E res \in PollResults :
          /\ EnginePoll(res)
          /\ pc' = IF res = "OkFalse" THEN "read_copy" ELSE pc
    /\ UNCHANGED open_obs
    /\ UNCHANGED <<wifi_vars, port_vars, op, buf_len, written, result, ret_n,
                   wait_fault, submits, last_offered, last_accept, panicked>>
    /\ WithInterface

ReadCopy ==
    /\ ~panicked
    /\ pc = "read_copy"
    /\ pc' = "done"
    /\ IF recv_slice(buf_len, tcp_state, rx_len) = -1
       THEN result' = "Other" /\ UNCHANGED <<ret_n, rx_len>>
       ELSE /\ result' = "Ok"
            /\ ret_n' = recv_slice(buf_len, tcp_state, rx_len)
            /\ rx_len' = rx_len - recv_slice(buf_len, tcp_state, rx_len)
    /\ UNCHANGED open_obs
    /\ UNCHANGED <<wifi_vars, port_vars, tcp_state, tx_len, bytes_arrived, aborted,
                   op, buf_len, written, obs_vars, panicked>>
    /\ WithInterface

\* ----------------------------------------------------------- Socket::write
WaitsWhileOpen(st, tx) ==
    IF may_send(st) THEN "break"
    ELSE IF ~is_open(st) THEN "closed"
    ELSE "again"
write_wait_check(st, tx) ==
    IF may_send(st) THEN "break"
    ELSE IF ~is_open(st) THEN "closed"
    ELSE IF ~can_send(st, tx) THEN "closed"
    ELSE "again"

WriteWait ==
    /\ ~panicked
    /\ pc = "write_wait"
    /\ \E res \in PollResults :
          /\ EnginePoll(res)
          /\ IF res = "Err"
             THEN \* .unwrap() on the Err of poll
                  /\ panicked' = TRUE
                  /\ wait_fault' = TRUE
                  /\ result' = "Panic"
                  /\ UNCHANGED pc
             ELSE /\ UNCHANGED <<panicked, wait_fault>>
                  /\ CASE write_wait_check(tcp_state', tx_len') = "break" ->
                             pc' = "write_drain" /\ UNCHANGED result
                       [] write_wait_check(tcp_state', tx_len') = "closed" ->
                             pc' = "done" /\ result' = "SocketClosed"
                       [] OTHER -> UNCHANGED <<pc, result>>
    /\ UNCHANGED open_obs
    /\ UNCHANGED <<wifi_vars, port_vars, op, buf_len, written, ret_n, submits,
                   last_offered, last_accept>>
    /\ WithInterface

WriteDrain ==
    /\ ~panicked
    /\ pc = "write_drain"
    /\ \E res \in PollResults :
          /\ EnginePoll(res)
          /\ pc' = IF res = "OkFalse" THEN "write_submit" ELSE pc
    /\ UNCHANGED open_obs
    /\ UNCHANGED <<wifi_vars, port_vars, op, buf_len, written, result, ret_n,
                   wait_fault, submits, last_offered, last_accept, panicked>>
    /\ WithInterface

\* &buf[written..]
WholeBuffer(len, w) == len
unsent(len, w) == len - w

\* one turn of the submission loop
WriteSubmit ==
    /\ ~panicked
    /\ pc = "write_submit"
    /\ submits < MaxSubmits
    /\ \E n \in SendOutcomes(unsent(buf_len, written), tcp_state, tx_len) :
          /\ submits' = submits + 1
          /\ last_offered' = unsent(buf_len, written)
          /\ last_accept' = n
          /\ IF n = -1
             THEN /\ pc' = "done"
                  /\ result' = "Other"
                  /\ UNCHANGED <<written, ret_n, tx_len>>
             ELSE /\ written' = written + n
                  /\ tx_len' = tx_len + n
                  /\ IF written + n >= buf_len
                     THEN pc' = "done" /\ result' = "Ok" /\ ret_n' = written + n
                     ELSE UNCHANGED <<pc, result, ret_n>>
    /\ UNCHANGED open_obs
    /\ UNCHANGED <<wifi_vars, port_vars, tcp_state, rx_len, bytes_arrived, aborted,
                   op, buf_len, last_poll, dhcp_drained, last_step_drained, wait_fault,
                   panicked>>
    \* the whole loop runs inside one with_interface callback
    /\ borrow_fault' = (borrow_fault \/ (submits = 0 /\ interface_borrowed))
    /\ interface_borrowed' = (pc' = "write_submit" \/ with_interface_exit)

\* ----------------------------------------------------------- Socket::flush
\* `if let Ok(false) = res { break; }`
StopsOnFailure(res) == res = "OkTrue"
flush_continues(res) == res # "OkFalse"

FlushPoll ==
    /\ ~panicked
    /\ pc = "flush_poll"
    /\ \E res \in PollResults :
          /\ EnginePoll(res)
          /\ IF flush_continues(res)
             THEN UNCHANGED <<pc, result>>
             ELSE pc' = "done" /\ result' = "Ok"
    /\ UNCHANGED open_obs
    /\ UNCHANGED <<wifi_vars, port_vars, op, buf_len, written, ret_n, wait_fault,
                   submits, last_offered, last_accept, panicked>>
    /\ WithInterface

\* ------------------------------------------------------- specifications
\* the table of the examples: one unspecified IPv4 entry
PlaceholderTable == <<V4Entry(Unspecified)>>

Init ==
    /\ \E t \in AddrTables : WifiNew(t)
    /\ default_route \in OptIpv4
    /\ route_room \in BOOLEAN
    /\ dhcp_socket_handle \in BOOLEAN
    /\ wifi_state = "None"
    /\ NetworkNew
    /\ SocketNew

Next == PollDhcp \/ GetStatus

\* the Wifi object: DHCP folding and status translation
Spec == Init /\ [][Next]_vars

\* an interface set up for DHCP: every IPv4 entry is the 0.0.0.0 placeholder
PlaceholderTables ==
    {t \in AddrTables : \A i \in V4Indices(t) : t[i].addr = Unspecified}

InitLease ==
    /\ \E t \in PlaceholderTables : WifiNew(t)
    /\ default_route = NoAddr
    /\ route_room \in BOOLEAN
    /\ dhcp_socket_handle \in BOOLEAN
    /\ wifi_state = "None"
    /\ NetworkNew
    /\ SocketNew

\* the Wifi object on an interface whose addresses come from DHCP alone
SpecLease == InitLease /\ [][Next]_vars

InitDriver ==
    /\ WifiNew(PlaceholderTable)
    /\ default_route = NoAddr
    /\ route_room = TRUE
    /\ dhcp_socket_handle = TRUE
    /\ wifi_state = "None"
    /\ NetworkNew
    /\ SocketNew

NextDriver == SetConfiguration \/ GetConfiguration \/ ScanN

\* the Wifi object's calls into the radio driver
SpecDriver == InitDriver /\ [][NextDriver]_vars

InitPort ==
    /\ WifiNew(PlaceholderTable)
    /\ default_route = NoAddr
    /\ route_room = TRUE
    /\ dhcp_socket_handle = TRUE
    /\ wifi_state = "None"
    /\ NetworkNew
    /\ SocketNew

NextPort == NextLocalPort

\* the ephemeral port counter of one Network
SpecPort == InitPort /\ [][NextPort]_vars

InitSock ==
    /\ WifiNew(PlaceholderTable)
    /\ default_route = NoAddr
    /\ route_room \in BOOLEAN
    /\ dhcp_socket_handle \in BOOLEAN
    /\ wifi_state = "None"
    /\ NetworkNew
    /\ SocketNew

NextSock ==
    \/ \E o \in Ops, n \in 0..MaxBytes : Call(o, n)
    \/ WorkDrain
    \/ WorkPoll
    \/ OpenBorrow
    \/ OpenConnect
    \/ OpenCheck
    \/ DisconnectAbort
    \/ ReadWait
    \/ ReadDrain
    \/ ReadCopy
    \/ WriteWait
    \/ WriteDrain
    \/ WriteSubmit
    \/ FlushPoll

\* one Socket of one Network running its blocking calls against the engine
SpecSock == InitSock /\ [][NextSock]_vars

\* ================================================================ claims

\* C1: right after poll_dhcp processes Configured(A) on a table that started
\* with one IPv4 entry, the table holds exactly one IPv4 entry and it is A;
\* right after it processes Deconfigured, the default route is absent and
\* network_config is None.
C1_LeaseFolding ==
    /\ (dhcp_event.kind = "Configured" /\ v4_at_start = 1) =>
          /\ V4Count(addrs) = 1
          /\ \A i \in V4Indices(addrs) : addrs[i] = V4Entry(dhcp_event.config.address)
          /\ ~panicked
    /\ dhcp_event.kind = "Deconfigured" =>
          /\ default_route = NoAddr
          /\ network_config = NoConfig

\* a Deconfigured processed after a Configured, on a table with an IPv6 entry
\* in front of the single IPv4 entry, which now holds a leased address
C1_Witness ==
    /\ dhcp_event.kind = "Deconfigured"
    /\ configured_seen
    /\ v4_at_start = 1
    /\ Len(addrs) = 2
    /\ ~addrs[1].v4
    /\ addrs[2] = V4Entry(2)

\* C2: in every reachable state an IPv4 entry that is present in the address
\* table (one holding an address, not the 0.0.0.0 placeholder that get_status
\* reports as Waiting) equals the address of the cached lease.
C2_EntryEqualsLease ==
    \A i \in V4Indices(addrs) :
        addrs[i].addr # Unspecified =>
            (network_config.some /\ addrs[i].addr = network_config.address)

\* C3: the counter and every returned port stay in [41000, 65535), the u16
\* increment never overflows, and the call after the one returning 65534
\* returns 41000.
C3_PortRange ==
    /\ local_port >= InitialLocalPort /\ local_port < LocalPortLimit
    /\ ~increment_overflows(local_port)
    /\ ~panicked
    /\ port_ret # NoPort =>
          /\ port_ret >= InitialLocalPort /\ port_ret < LocalPortLimit
          /\ prev_port_ret = LocalPortLimit - 1 => port_ret = InitialLocalPort

\* the call after the one that returned 65534 has returned
C3_Witness == prev_port_ret = LocalPortLimit - 1 /\ port_ret = InitialLocalPort

\* C4 as stated: each call returns the value the counter held when the call
\* started, so the first call returns 41000.
C4_ReturnsValueBefore ==
    port_ret # NoPort =>
        /\ port_ret = port_before
        /\ prev_port_ret = NoPort => port_ret = InitialLocalPort

\* C4 amended: each call returns the value the counter holds when the call
\* ends (the incremented value, 41000 where the increment reaches 65535), so
\* the first call returns 41001.
C4_ReturnsValueAfter ==
    port_ret # NoPort =>
        /\ port_ret = local_port
        /\ port_ret = IF port_before + 1 = LocalPortLimit THEN InitialLocalPort
                                                       ELSE port_before + 1
        /\ prev_port_ret = NoPort => port_ret = InitialLocalPort + 1

\* the first call on a new Network has returned
C4_Witness == prev_port_ret = NoPort /\ port_ret = InitialLocalPort + 1

\* C5: a read call that returns on a connection aborted before any byte
\* arrived (socket not open, receive buffer empty) returns Err(SocketClosed),
\* at whichever engine step of the call the abort became visible.
C5_AbortedReadIsSocketClosed ==
    (/\ op = "read"
     /\ pc = "done"
     /\ aborted
     /\ ~bytes_arrived
     /\ ~is_open(tcp_state)
     /\ rx_len = 0) => result = "SocketClosed"

\* C6: every send_slice call of write is handed exactly the unsent remainder;
\* write returns Ok(buf.len()) at the first submission that completes the
\* buffer and not before, keeps submitting while bytes remain, and returns
\* Err(Other) at a faulting submission without submitting again.
C6_WriteSubmits ==
    (op = "write" /\ submits > 0) =>
        /\ last_accept = -1 =>
              /\ last_offered = buf_len - written
              /\ pc = "done"
              /\ result = "Other"
        /\ last_accept # -1 =>
              /\ last_offered = buf_len - (written - last_accept)
              /\ IF written >= buf_len
                 THEN /\ pc = "done"
                      /\ result = "Ok"
                      /\ ret_n = buf_len
                      /\ submits > 1 => written - last_accept < buf_len
                 ELSE /\ pc = "write_submit"
                      /\ result = "None"

\* a buffer of two bytes was accepted in two partial submissions
C6_Witness ==
    /\ op = "write"
    /\ pc = "done"
    /\ result = "Ok"
    /\ buf_len = 2
    /\ ret_n = 2
    /\ submits = 2
    /\ last_accept = 1

\* C7 as stated: flush never returns an error and stops, returning Ok(()),
\* after the first engine step that reports no more work or fails.
C7_FlushStopsOnFailure ==
    op = "flush" =>
        /\ result \in {"None", "Ok"}
        /\ last_poll \in {"OkFalse", "Err"} => (pc = "done" /\ result = "Ok")

\* C7 amended: flush never returns an error; a failing engine step is treated
\* like one reporting more work: flush keeps stepping and returns Ok(())
\* exactly after the first step that reports no more work.
C7_FlushStopsOnNoWork ==
    op = "flush" =>
        /\ result \in {"None", "Ok"}
        /\ ~panicked
        /\ last_poll = "OkFalse" => (pc = "done" /\ result = "Ok")
        /\ last_poll \in {"None", "OkTrue", "Err"} => (pc = "flush_poll" /\ result = "None")

\* flush is still stepping after an engine step failed
C7_Witness == op = "flush" /\ last_poll = "Err" /\ pc = "flush_poll"

\* C8: an engine failure in the main wait loop of read, write or open makes
\* the call return at once with a typed error; the call does not panic and
\* does not go on looping.
C8_WaitFaultPropagates ==
    wait_fault => (pc = "done" /\ result = "Other" /\ ~panicked)

\* C9 as stated: no engine step of any blocking call runs without a DHCP
\* drain since the previous engine step.
C9_EveryStepDrained == last_step_drained # "no"

\* C9 amended: in open, disconnect and work every engine step directly
\* follows one DHCP drain of the same iteration; read, write and flush step
\* the engine without draining DHCP.
C9_WorkStepsDrained ==
    /\ op \in {"open", "disconnect", "work", "network_work"} =>
          /\ last_step_drained # "no"
          /\ dhcp_drained <=> pc = "work_poll"
    /\ op \in {"read", "write", "flush"} =>
          /\ last_step_drained # "yes"
          /\ ~dhcp_drained

\* open is in a later iteration of its wait loop, its last engine step
\* having followed a drain
C9_Witness ==
    /\ op = "open"
    /\ pc = "work_poll"
    /\ last_step_drained = "yes"
    /\ last_poll = "OkTrue"

\* C11: the RefMut of Network.interface lives only inside one callback: it is
\* never requested while one is alive, and outside a panic it is alive exactly
\* inside the connect callback of open and inside the submission loop of
\* write, so never when a call has returned.
C11_GuardOneCallback ==
    /\ ~borrow_fault
    /\ ~panicked =>
          (interface_borrowed <=>
              (pc = "open_connect" \/ (pc = "write_submit" /\ submits > 0)))
    /\ pc \in {"idle", "done"} => ~interface_borrowed

\* the second open of a Network is inside its connect callback, about to call
\* next_local_port under the RefMut
C11_Witness ==
    /\ op = "open"
    /\ pc = "open_connect"
    /\ interface_borrowed
    /\ local_port = InitialLocalPort + 1

\* C12 as stated: an open call advances the port counter once and issues one
\* connect request with that port before any engine step, returns Ok(()) only
\* directly after a send-ready check that succeeded, and every wait iteration
\* (the stretch between two send-ready checks) is one DHCP drain followed by
\* one engine step.
C12_OneStepPerIteration ==
    op = "open" =>
        /\ port_calls <= 1 /\ connects <= 1
        /\ connects = 1 => connect_port = port_ret
        /\ (pc = "done" /\ result = "Ok") =>
              (tcp_state \in {"Established", "CloseWait"} /\ tx_len < MaxBytes)
        /\ last_step_drained # "no"
        /\ steps_in_iteration <= 1

\* C12 amended: as above, but a wait iteration is one run of work(): one or
\* more pairs of a DHCP drain followed by an engine step, ended by the first
\* step that reports no more work; send-ready is checked only then.
C12_WorkPerIteration ==
    op = "open" =>
        /\ (~panicked /\ pc \in {"open_borrow", "open_connect"}) =>
              (port_calls = 0 /\ connects = 0 /\ last_poll = "None")
        /\ (~panicked /\ pc \notin {"open_borrow", "open_connect"}) =>
              /\ port_calls = 1 /\ connects = 1
              /\ connect_port = port_ret
              /\ connect_port = local_port
        /\ port_calls <= 1 /\ connects <= 1
        /\ (pc = "done" /\ result = "Ok") =>
              (tcp_state \in {"Established", "CloseWait"} /\ tx_len < MaxBytes)
        /\ pc = "done" => result = "Ok"
        /\ last_step_drained # "no"
        /\ pc = "work_poll" => dhcp_drained
        /\ (pc = "open_check" /\ last_poll # "None") =>
              (last_poll = "OkFalse" /\ steps_in_iteration >= 1)
        /\ (pc \in {"work_drain", "work_poll"} /\ steps_in_iteration >= 1) =>
              last_poll \in {"OkTrue", "Err"}

\* open is at its send-ready check after a wait iteration of several engine
\* steps, and the socket is send-ready: it returns Ok(()) next
C12_Witness ==
    /\ op = "open"
    /\ pc = "open_check"
    /\ steps_in_iteration = 2
    /\ last_poll = "OkFalse"
    /\ tcp_state = "Established"
    /\ connect_port = InitialLocalPort + 1

\* C13: set_configuration with a Client configuration calls the driver's
\* connect once with that ssid and password and returns Err(Unknown(code))
\* with the driver's code exactly when the code is non-zero, Ok(()) when it is
\* 0; every other variant panics without reaching the driver.
C13_ConfigureResult ==
    conf_result # NoConfResult =>
        /\ current_config.kind = "Client" =>
              /\ ~panicked
              /\ driver_connect.called
              /\ driver_connect.ssid = current_config.ssid
              /\ driver_connect.password = current_config.password
              /\ driver_connect.code # 0 =>
                    (conf_result.kind = "Unknown" /\ conf_result.code = driver_connect.code)
              /\ driver_connect.code = 0 => conf_result.kind = "Ok"
        /\ current_config.kind # "Client" =>
              /\ panicked
              /\ conf_result.kind = "Panic"
              /\ ~driver_connect.called

\* the driver rejected a Client configuration with code 12289
C13_Witness ==
    /\ current_config = ConfClient(2, 1)
    /\ conf_result = ConfUnknown(12289)
    /\ driver_connect.called

\* C14: a scan of capacity N against a driver that reports M records returns
\* min(M, N) records and the count min(M, N) whenever the records it decodes
\* carry recognised codes; M = 0 returns the empty result without a fault.
C14_ScanCounts ==
    scan_input.called =>
        LET N == scan_input.N
            M == scan_input.M
            decodes == scan_input.bad = 0 \/ scan_input.bad > Min(M, N)
        IN  /\ scan_result.kind = "Ok" =>
                  (scan_result.len = Min(M, N) /\ scan_result.count = Min(M, N))
            /\ decodes <=> scan_result.kind = "Ok"
            /\ M = 0 => (scan_result.kind = "Ok" /\ scan_result.len = 0 /\ ~panicked)

\* the driver found more than the capacity holds
C14_Witness ==
    /\ scan_input.called
    /\ scan_input.N = 2
    /\ scan_input.M = 3
    /\ scan_result = [kind |-> "Ok", len |-> 2, count |-> 2]

\* C15: after the engine step of read's wait loop a receive-ready socket
\* takes read on to the drain pass and the copy, open or not, and buffered
\* data of a socket that is no longer open is then returned by the copy;
\* Err(SocketClosed) comes only from a socket that is not receive-ready and
\* is not open or cannot receive.
C15_ReceiveReadyFirst ==
    [][/\ (pc = "read_wait" /\ ~panicked') =>
             /\ may_recv(tcp_state', rx_len') <=> pc' = "read_drain"
             /\ result' = "SocketClosed" =>
                   /\ ~may_recv(tcp_state', rx_len')
                   /\ ~is_open(tcp_state') \/ ~can_recv(tcp_state', rx_len')
       /\ (pc = "read_drain" /\ ~is_open(tcp_state) /\ rx_len > 0) =>
             /\ pc' \in {"read_drain", "read_copy"}
             /\ UNCHANGED <<tcp_state, rx_len>>
       /\ (pc = "read_copy" /\ ~is_open(tcp_state) /\ rx_len > 0) =>
             /\ pc' = "done"
             /\ result' = "Ok"
             /\ ret_n' = Min(buf_len, rx_len)
             /\ rx_len' = rx_len - ret_n'
      ]_vars

\* a read returned the two bytes buffered on a socket that is closed
C15_Witness ==
    /\ op = "read"
    /\ pc = "done"
    /\ result = "Ok"
    /\ tcp_state = "Closed"
    /\ ret_n = 2

\* C16: a Configured event with a gateway whose default route the engine
\* cannot install makes poll_dhcp return Err(SmolTcpError) with the cached
\* lease and the first IPv4 entry already replaced by the new lease and the
\* route table as it was; work() drops that error: the engine step follows
\* and the blocking call goes on without returning it.
C16_RouteFailureNoRollback ==
    [][/\ (/\ pc = "work_drain"
           /\ dhcp_event'.kind = "Configured"
           /\ dhcp_event'.config.router # NoAddr
           /\ default_route = NoAddr
           /\ ~route_room
           /\ FirstV4(addrs) # 0) =>
             /\ dhcp_result' = "SmolTcpError"
             /\ network_config' = dhcp_event'.config
             /\ addrs'[FirstV4(addrs)] = V4Entry(dhcp_event'.config.address)
             /\ default_route' = NoAddr
             /\ ~panicked'
             /\ pc' = "work_poll"
             /\ result' = result
       /\ (pc = "work_drain" /\ dhcp_result' = "SmolTcpError") =>
             /\ dhcp_event'.kind = "Configured"
             /\ dhcp_event'.config.router # NoAddr
       /\ (pc = "work_poll" /\ dhcp_result = "SmolTcpError") =>
             /\ last_poll' \in PollResults
             /\ result' \in {"None", "Returned"}
             /\ UNCHANGED <<network_config, addrs, default_route>>
      ]_vars

\* open checks send-ready after a work() whose drain failed to install the route
C16_Witness ==
    /\ op = "open"
    /\ pc = "open_check"
    /\ dhcp_result = "SmolTcpError"
    /\ network_config = SomeConfig(1, 1, NoAddr)
    /\ ipv4_addr(addrs) = 1
    /\ default_route = NoAddr
    /\ last_poll = "OkFalse"

\* a submission of write accepted nothing while bytes remain unsent
C17_Stalled ==
    /\ op = "write"
    /\ pc = "write_submit"
    /\ submits > 0
    /\ last_accept = 0
    /\ written < buf_len

\* C17: between two submissions of write no engine step and no DHCP drain
\* runs, so the socket state stays and the transmit buffer only fills; write
\* returns from the loop only at a submission that made progress or faulted,
\* and once a submission accepted 0 bytes with bytes unsent every later one
\* accepts 0 again and write never returns.
C17_StalledWriteNeverReturns ==
    /\ [][/\ pc = "write_submit" =>
                /\ UNCHANGED <<tcp_state, last_poll, dhcp_drained, dhcp_event,
                               last_step_drained>>
                /\ tx_len' >= tx_len
                /\ pc' \in {"write_submit", "done"}
                /\ (pc' = "done" /\ buf_len > 0) => last_accept' # 0
          /\ C17_Stalled => (C17_Stalled' /\ UNCHANGED <<written, tx_len>>)
         ]_vars
    /\ [](C17_Stalled => [](pc = "write_submit" /\ result = "None"))

\* the second and the third submission of a two-byte buffer accepted nothing
C17_Witness ==
    /\ C17_Stalled
    /\ submits = 3
    /\ buf_len = 2
    /\ written = 1
    /\ tx_len = MaxBytes

\* C18: the wait loop of read and of write takes exactly one engine step
\* and then either goes on to the drain pass, the socket being receive-ready
\* (send-ready), or returns Err(SocketClosed), also for a socket that is open
\* but not ready yet.
C18_WaitLoopOneStep ==
    [][/\ pc = "read_wait" =>
             \/ pc' = "read_drain" /\ may_recv(tcp_state', rx_len') /\ result' = "None"
             \/ /\ pc' = "done"
                /\ result' = "SocketClosed"
                /\ ~may_recv(tcp_state', rx_len')
       /\ pc = "write_wait" =>
             \/ pc' = "write_drain" /\ may_send(tcp_state') /\ result' = "None"
             \/ /\ pc' = "done"
                /\ result' = "SocketClosed"
                /\ ~may_send(tcp_state')
      ]_vars

\* C19: a socket that was receive-ready when read's wait loop ended and is
\* not receivable when the drain pass ends makes read return the failure of
\* the copy as Err(Other); Err(SocketClosed) is set only by a wait loop; a
\* failing engine step of the drain pass is dropped and the pass goes on
\* until a step reports no more work.
C19_DrainPassAbortIsOther ==
    [][/\ (pc = "read_copy" /\ ~may_recv(tcp_state, rx_len)) =>
             (pc' = "done" /\ result' = "Other")
       /\ (result' = "SocketClosed" /\ result # "SocketClosed") =>
             pc \in {"read_wait", "write_wait"}
       /\ pc = "read_drain" =>
             /\ ~panicked'
             /\ result' = result
             /\ last_poll' = "Err" => pc' = "read_drain"
             /\ pc' = "read_copy" <=> last_poll' = "OkFalse"
      ]_vars

\* the copy failed on a socket that was closed after the wait loop
C19_Witness ==
    /\ op = "read"
    /\ pc = "done"
    /\ result = "Other"
    /\ tcp_state = "Closed"
    /\ rx_len = 0
    /\ last_poll = "OkFalse"

\* C20: a poll_dhcp that processes Deconfigured drops the cached lease and
\* leaves the address table as it is, the IPv4 entry keeping the address of
\* the dropped lease; from then on, until a Configured event is processed,
\* get_status with the radio in StaConnected reports Connected(Done) with
\* that address and gateway and DNS 0.0.0.0, and Waiting only if the address
\* is itself 0.0.0.0.
C20_DeconfiguredKeepsAddress ==
    [][/\ dhcp_event'.kind = "Deconfigured" =>
             /\ addrs' = addrs
             /\ network_config' = NoConfig
             /\ network_config.some => ipv4_addr(addrs') = network_config.address
       /\ (/\ wifi_state' = "StaConnected"
           /\ configured_seen
           /\ network_config = NoConfig) =>
             /\ UNCHANGED <<addrs, network_config>>
             /\ status' = IF ipv4_addr(addrs) = Unspecified THEN StatusWaiting
                          ELSE Status("Started", "Connected", "Done", ipv4_addr(addrs),
                                      Unspecified, Unspecified, MaskBits, Unspecified)
      ]_vars

\* the lease of address 2 is gone and the status still shows address 2
C20_Witness ==
    /\ wifi_state = "StaConnected"
    /\ configured_seen
    /\ network_config = NoConfig
    /\ status.ip = "Done"
    /\ status.addr = 2
    /\ status.gateway = Unspecified
    /\ status.dns = Unspecified

\* C21: a poll_dhcp that processes a Configured event without a gateway
\* caches the lease and leaves the default route as it was, so a route
\* installed for an earlier lease stays beside a lease that names no gateway.
C21_NoGatewayKeepsRoute ==
    [][(dhcp_event'.kind = "Configured" /\ dhcp_event'.config.router = NoAddr) =>
           /\ default_route' = default_route
           /\ network_config' = dhcp_event'.config
           /\ dhcp_result' \in {"Ok", "Panic"}
      ]_vars

\* the route to gateway 1 outlived its lease: the cached lease has no gateway
C21_Witness ==
    /\ dhcp_event.kind = "Configured"
    /\ network_config = SomeConfig(2, NoAddr, NoAddr)
    /\ ipv4_addr(addrs) = 2
    /\ default_route = 1
    /\ dhcp_result = "Ok"

\* C22: the stored configuration is the argument of the most recent
\* set_configuration call whatever that call returned, Err(Unknown(code)) and
\* the panics included, and the default before any call; get_configuration
\* returns the stored configuration.
C22_StoredIsLastArgument ==
    /\ current_config = IF last_set.called THEN last_set.conf ELSE ConfNone
    /\ conf_ret # NoConfRet =>
          conf_ret = IF last_set.called THEN last_set.conf ELSE ConfNone
    /\ conf_result.kind \in {"Unknown", "Panic"} => current_config = last_set.conf

\* get_configuration returned the configuration the driver had rejected
C22_Witness ==
    /\ last_set.called
    /\ last_set.result = ConfUnknown(12289)
    /\ last_set.conf = ConfClient(2, 1)
    /\ conf_ret = ConfClient(2, 1)

\* C10: the status a get_status call returns follows the claimed table, and
\* the call changes nothing else.
StatusAsClaimed ==
    /\ wifi_state \in {"WifiReady", "StaStop", "Invalid"} =>
          /\ status.client = "Stopped" /\ status.conn = "None" /\ status.ip = "None"
    /\ wifi_state = "StaStart" =>
          /\ status.client = "Starting" /\ status.conn = "None" /\ status.ip = "None"
    /\ wifi_state = "StaDisconnected" =>
          /\ status.client = "Started" /\ status.conn = "Disconnected"
          /\ status.ip = "None"
    /\ wifi_state = "StaConnected" =>
          /\ status.client = "Started" /\ status.conn = "Connected"
          /\ IF V4Indices(addrs) = {} \/ addrs[FirstV4(addrs)].addr = Unspecified
             THEN status.ip = "Waiting"
             ELSE /\ status.ip = "Done"
                  /\ status.addr = addrs[FirstV4(addrs)].addr
                  /\ status.gateway =
                        IF network_config.some /\ network_config.router # NoAddr
                        THEN network_config.router ELSE Unspecified
                  /\ status.dns =
                        IF network_config.some /\ network_config.dns0 # NoAddr
                        THEN network_config.dns0 ELSE Unspecified

C10_StatusTable ==
    [][wifi_state' # "None" =>
          /\ StatusAsClaimed'
          /\ UNCHANGED <<addrs, default_route, route_room, network_config,
                         dhcp_socket_handle, local_port, panicked, sock_vars>>]_vars

\* Done is reported with the table's address and the gateway and DNS server
\* of the cached lease
C10_Witness ==
    /\ wifi_state = "StaConnected"
    /\ status.ip = "Done"
    /\ network_config.some
    /\ status.addr = 1
    /\ status.gateway = 2
    /\ status.dns = 1
====
